---------------------------- MODULE Spec2Model ----------------------------
(***************************************************************************)
(* project-renamer (src/src/main.rs): case-style detection, re-rendering,  *)
(* the 18-pass text rewrite, and the directory copy that applies them.     *)
(*                                                                         *)
(* A Rust String is a sequence of one-character strings; a Vec<String> is  *)
(* a sequence of those.  A panic (unwrap on None, a slice that is not on a *)
(* char boundary) is the value Panicked, which is no string.               *)
(***************************************************************************)
EXTENDS Naturals, Sequences, FiniteSets, TLC

VARIABLES
    pc,             \* position of the program
    origin,         \* "name": detect is given a literal name; "grid": a rendering
    grid_case,      \* the CaseInfo a grid name was rendered under
    grid_parts,     \* the NormalizedName a grid name was rendered from
    name,           \* detect's argument
    case_info,      \* detect's first result
    normalized,     \* detect's second result
    rendered,       \* convert's result
    input_file_name,\* start: the last component of args.input
    args_name,      \* start: args.name
    old_name,       \* start: detect(input_file_name).1
    new_name,       \* start: detect(args.name).1
    input,          \* transform_text's input
    out,            \* transform_text's result
    cases,          \* transform_text's all_cases
    fs_in,          \* the input tree: path under args.input -> node
    fs_out,         \* the output tree: path under the output directory -> node
    stack,          \* the for loops of the traverse_directory calls in progress
    call,           \* the arguments of the last traverse_directory call
    stdout          \* what the last step printed

cvars == <<origin, grid_case, grid_parts, name, case_info, normalized, rendered>>

tvars == <<input_file_name, args_name, old_name, new_name, input, out, cases>>

fvars == <<fs_in, fs_out, stack, call, stdout>>

vars == <<pc, cvars, tvars, fvars>>

---------------------------------------------------------------------------
(* Characters.  The alphabet holds every class the code tells apart: ASCII *)
(* lower and upper case letters, a digit (neither upper nor lower case),   *)
(* the five separators, and a two-byte letter.                             *)

SEPARATORS == <<" ", "_", "-", ".", "/">>

None == "None"

Panicked == <<"panic!">>

LowerLetters == {"a", "b", "é"}

UpperLetters == {"A", "B", "É"}

Alphabet == LowerLetters \cup UpperLetters \cup {"1"} \cup {SEPARATORS[i] : i \in 1..5}

is_uppercase(c) == c \in UpperLetters

is_lowercase(c) == c \in LowerLetters

char_to_uppercase(c) ==
    CASE c = "a" -> "A" [] c = "b" -> "B" [] c = "é" -> "É" [] OTHER -> c

char_to_lowercase(c) ==
    CASE c = "A" -> "a" [] c = "B" -> "b" [] c = "É" -> "é" [] OTHER -> c

\* UTF-8 length of a character: &part[1..] slices by bytes.
len_utf8(c) == IF c \in {"é", "É"} THEN 2 ELSE 1

to_uppercase(s) == [i \in 1..Len(s) |-> char_to_uppercase(s[i])]

to_lowercase(s) == [i \in 1..Len(s) |-> char_to_lowercase(s[i])]

contains(s, c) == \E i \in 1..Len(s) : s[i] = c

\* str::split(char): the pieces between the occurrences, empty ones included.
RECURSIVE split(_, _)
split(s, c) ==
    IF ~contains(s, c) THEN <<s>>
    ELSE LET i == CHOOSE k \in 1..Len(s) : s[k] = c /\ \A j \in 1..(k-1) : s[j] # c
         IN  <<SubSeq(s, 1, i - 1)>> \o split(SubSeq(s, i + 1, Len(s)), c)

\* [String]::join(&str)
RECURSIVE join(_, _)
join(parts, sep) ==
    IF parts = <<>> THEN <<>>
    ELSE IF Len(parts) = 1 THEN parts[1]
    ELSE parts[1] \o sep \o join(Tail(parts), sep)

\* str::replace: every non-overlapping match, scanning left to right; an empty
\* pattern matches before every character and at the end.
\*
\* replace_scan is the scan over positions lo..hi of s.  skip counts the
\* positions still covered by the match before lo; the result is the output for
\* lo..hi and the count carried past hi.  The range is halved so that the depth
\* of the evaluation is logarithmic in Len(s); the positions are still visited
\* left to right.
matches_at(s, from, i) ==
    i + Len(from) - 1 <= Len(s) /\ SubSeq(s, i, i + Len(from) - 1) = from

RECURSIVE replace_scan(_, _, _, _, _, _)
replace_scan(s, from, to, lo, hi, skip) ==
    IF lo > hi THEN [text |-> <<>>, skip |-> skip]
    ELSE IF lo = hi THEN
        IF skip > 0 THEN [text |-> <<>>, skip |-> skip - 1]
        ELSE IF matches_at(s, from, lo) THEN [text |-> to, skip |-> Len(from) - 1]
        ELSE [text |-> <<s[lo]>>, skip |-> 0]
    ELSE LET mid   == (lo + hi) \div 2
             left  == replace_scan(s, from, to, lo, mid, skip)
             right == replace_scan(s, from, to, mid + 1, hi, left.skip)
         IN  [text |-> left.text \o right.text, skip |-> right.skip]

RECURSIVE replace_empty(_, _)
replace_empty(s, to) ==
    IF s = <<>> THEN to ELSE to \o <<s[1]>> \o replace_empty(Tail(s), to)

replace(s, from, to) ==
    IF from = <<>> THEN replace_empty(s, to)
    ELSE replace_scan(s, from, to, 1, Len(s), 0).text

---------------------------------------------------------------------------
(* CaseInfo                                                                *)

CaseTypes == <<"Capitalise", "UpperCase", "LowerCase">>

CaseInfo(separator, part_type) == [separator |-> separator, part_type |-> part_type]

\* The push of None after the inner loop instead of before it.
cases_of_none_last(part_type) ==
    [i \in 1..Len(SEPARATORS) |-> CaseInfo(SEPARATORS[i], part_type)]
        \o <<CaseInfo(None, part_type)>>

\* One turn of the outer loop: the push of None, then the inner loop.
cases_of(part_type) ==
    <<CaseInfo(None, part_type)>>
        \o [i \in 1..Len(SEPARATORS) |-> CaseInfo(SEPARATORS[i], part_type)]

all_cases == cases_of(CaseTypes[1]) \o cases_of(CaseTypes[2]) \o cases_of(CaseTypes[3])

\* The loop without its break: the last separator of the list the name contains.
detect_separator_no_break(s) ==
    IF \E i \in 1..Len(SEPARATORS) : contains(s, SEPARATORS[i])
    THEN SEPARATORS[CHOOSE i \in 1..Len(SEPARATORS) :
                        /\ contains(s, SEPARATORS[i])
                        /\ \A j \in (i+1)..Len(SEPARATORS) : ~contains(s, SEPARATORS[j])]
    ELSE None

\* The loop with its break: the first separator of the list the name contains.
detect_separator(s) ==
    IF \E i \in 1..Len(SEPARATORS) : contains(s, SEPARATORS[i])
    THEN SEPARATORS[CHOOSE i \in 1..Len(SEPARATORS) :
                        /\ contains(s, SEPARATORS[i])
                        /\ \A j \in 1..(i-1) : ~contains(s, SEPARATORS[j])]
    ELSE None

detect_parts(s, separator) ==
    IF separator # None THEN split(s, separator) ELSE <<s>>

\* any() where the code has all(): one upper case character makes UpperCase.
detect_part_type_any(parts) ==
    IF \E i \in 1..Len(parts) : \E k \in 1..Len(parts[i]) : is_uppercase(parts[i][k])
    THEN "UpperCase"
    ELSE IF \A i \in 1..Len(parts) : \A k \in 1..Len(parts[i]) : is_lowercase(parts[i][k])
    THEN "LowerCase"
    ELSE "Capitalise"

\* The two tests in the other order.
detect_part_type_lower_first(parts) ==
    IF \A i \in 1..Len(parts) : \A k \in 1..Len(parts[i]) : is_lowercase(parts[i][k])
    THEN "LowerCase"
    ELSE IF \A i \in 1..Len(parts) : \A k \in 1..Len(parts[i]) : is_uppercase(parts[i][k])
    THEN "UpperCase"
    ELSE "Capitalise"

detect_part_type(parts) ==
    IF \A i \in 1..Len(parts) : \A k \in 1..Len(parts[i]) : is_uppercase(parts[i][k])
    THEN "UpperCase"
    ELSE IF \A i \in 1..Len(parts) : \A k \in 1..Len(parts[i]) : is_lowercase(parts[i][k])
    THEN "LowerCase"
    ELSE "Capitalise"

detect(s) ==
    LET separator == detect_separator(s)
        parts     == detect_parts(s, separator)
    IN  [case |-> CaseInfo(separator, detect_part_type(parts)),
         name |-> [i \in 1..Len(parts) |-> to_lowercase(parts[i])]]

\* Capitalise: chars().next().unwrap() panics on an empty part, and &part[1..]
\* panics when byte 1 is inside the first character.
capitalise_panics(part) == part = <<>> \/ len_utf8(part[1]) # 1

convert_part(part_type, part) ==
    CASE part_type = "Capitalise" -> <<char_to_uppercase(part[1])>> \o Tail(part)
      [] part_type = "UpperCase"  -> to_uppercase(part)
      [] part_type = "LowerCase"  -> to_lowercase(part)

convert(info, normalized_name) ==
    IF /\ info.part_type = "Capitalise"
       /\ \E i \in 1..Len(normalized_name) : capitalise_panics(normalized_name[i])
    THEN Panicked
    ELSE join([i \in 1..Len(normalized_name) |->
                  convert_part(info.part_type, normalized_name[i])],
              IF info.separator # None THEN <<info.separator>> ELSE <<>>)

\* The loop of transform_text from pass i on: each pass works on the output of
\* the one before, and a panic in either convert ends the run.
RECURSIVE transform_passes(_, _, _, _)
transform_passes(i, text, old, new) ==
    IF i > Len(all_cases) THEN text
    ELSE LET search_for   == convert(all_cases[i], old)
             replace_with == convert(all_cases[i], new)
         IN  IF search_for = Panicked \/ replace_with = Panicked
             THEN Panicked
             ELSE transform_passes(i + 1, replace(text, search_for, replace_with), old, new)

transform_text(text, old, new) == transform_passes(1, text, old, new)

---------------------------------------------------------------------------
(* Inputs of the detector.                                                 *)

MaxNameLen == 4

MaxParts == 2

MaxPartLen == 2

RECURSIVE StringsOver(_, _)
StringsOver(alphabet, n) ==
    IF n = 0 THEN {<<>>}
    ELSE LET shorter == StringsOver(alphabet, n - 1)
         IN  shorter \cup {Append(s, c) : s \in shorter, c \in alphabet}

Names == StringsOver(Alphabet, MaxNameLen) \ {<<>>}

\* Parts as the data model has them: non-empty, lower case, separator-free.
GridAlphabet == {"a", "1"}

GridParts == StringsOver(GridAlphabet, MaxPartLen) \ {<<>>}

RECURSIVE SeqsOver(_, _)
SeqsOver(S, n) ==
    IF n = 0 THEN {<<>>}
    ELSE LET shorter == SeqsOver(S, n - 1)
         IN  shorter \cup {Append(q, x) : q \in shorter, x \in S}

GridNames == SeqsOver(GridParts, MaxParts) \ {<<>>}

Idle == <<>>

FsIdle ==
    /\ fs_in = Idle
    /\ fs_out = Idle
    /\ stack = Idle
    /\ call = Idle
    /\ stdout = Idle

TransformIdle ==
    /\ input_file_name = Idle
    /\ args_name = Idle
    /\ old_name = Idle
    /\ new_name = Idle
    /\ input = Idle
    /\ out = Idle
    /\ cases = Idle
    /\ FsIdle

InitFromName ==
    /\ pc = "detect"
    /\ origin = "name"
    /\ name \in Names
    /\ grid_case = CaseInfo(None, "LowerCase")
    /\ grid_parts = Idle
    /\ case_info = CaseInfo(None, "LowerCase")
    /\ normalized = Idle
    /\ rendered = Idle
    /\ TransformIdle

InitFromGrid ==
    /\ pc = "render"
    /\ origin = "grid"
    /\ \E i \in 1..Len(all_cases) : grid_case = all_cases[i]
    /\ grid_parts \in GridNames
    /\ name = Idle
    /\ case_info = CaseInfo(None, "LowerCase")
    /\ normalized = Idle
    /\ rendered = Idle
    /\ TransformIdle

Init == InitFromName \/ InitFromGrid

\* A canonical rendering: some CaseInfo of the grid applied to a NormalizedName.
Render ==
    /\ pc = "render"
    /\ name' = convert(grid_case, grid_parts)
    /\ pc' = IF name' = Panicked THEN "panic" ELSE "detect"
    /\ UNCHANGED <<origin, grid_case, grid_parts, case_info, normalized, rendered, tvars, fvars>>

Detect ==
    /\ pc = "detect"
    /\ case_info' = detect(name).case
    /\ normalized' = detect(name).name
    /\ pc' = "convert"
    /\ UNCHANGED <<origin, grid_case, grid_parts, name, rendered, tvars, fvars>>

Convert ==
    /\ pc = "convert"
    /\ rendered' = convert(case_info, normalized)
    /\ pc' = IF rendered' = Panicked THEN "panic" ELSE "done"
    /\ UNCHANGED <<origin, grid_case, grid_parts, name, case_info, normalized, tvars, fvars>>

Next == Render \/ Detect \/ Convert

Spec == Init /\ [][Next]_vars

---------------------------------------------------------------------------
(* Claims about detect and convert, under Spec.                            *)

Detected == pc \in {"convert", "done"} \/ (pc = "panic" /\ normalized # Idle)

Converted == Detected /\ pc # "convert"

AsciiLower == {"a", "b"}

Letters == LowerLetters \cup UpperLetters

PriorityList == <<" ", "_", "-", ".", "/">>

Occurrences(s, c) == Cardinality({i \in 1..Len(s) : s[i] = c})

NameChars == {name[i] : i \in 1..Len(name)}

\* C2 (as stated): every rendering of a NormalizedName under one of the 18
\* CaseInfo values is reproduced by detect followed by convert.
C2_RoundTrip ==
    (origin = "grid" /\ Converted) => rendered = name

\* The renderings detect cannot segment again: Capitalise without a separator
\* over two or more parts, one of them longer than a character (AbA, ABc).
C2_Joined ==
    /\ grid_case = CaseInfo(None, "Capitalise")
    /\ Len(grid_parts) >= 2
    /\ \E i \in 1..Len(grid_parts) : Len(grid_parts[i]) > 1

C2_LetterParts ==
    \A i \in 1..Len(grid_parts) :
        /\ grid_parts[i] # <<>>
        /\ \A k \in 1..Len(grid_parts[i]) : grid_parts[i][k] \in AsciiLower

\* C2 (amended): the round trip holds for the renderings of a NormalizedName
\* whose parts are non-empty strings of ASCII lower case letters, except under
\* Capitalise with no separator when the name has two or more parts and one of
\* them is longer than one character.
C2_RoundTripAmended ==
    (origin = "grid" /\ Converted /\ C2_LetterParts /\ ~C2_Joined) =>
        (pc = "done" /\ rendered = name)

C2_Witness ==
    /\ origin = "grid"
    /\ pc = "done"
    /\ grid_case = CaseInfo("_", "Capitalise")
    /\ grid_parts = << <<"a", "a">>, <<"a">> >>
    /\ name = <<"A", "a", "_", "A">>
    /\ rendered = name

\* C4: for every non-empty name, detect's NormalizedName has no empty part and
\* its parts are the lower-cased segments of the name, left to right.
C4_NoEmptyPart ==
    (origin = "name" /\ Detected) =>
        /\ \A i \in 1..Len(normalized) : normalized[i] # <<>>
        /\ join(normalized,
                IF case_info.separator = None THEN <<>> ELSE <<case_info.separator>>)
              = to_lowercase(name)

\* C8: the separator is the first character of [space, underscore, hyphen, dot,
\* slash] that occurs anywhere in the name, the name is split on that character
\* only, and with none of the five the whole name is the single part.
C8_SeparatorPriority ==
    Detected =>
        IF \A i \in 1..5 : PriorityList[i] \notin NameChars
        THEN /\ case_info.separator = None
             /\ normalized = <<to_lowercase(name)>>
        ELSE \E i \in 1..5 :
                /\ case_info.separator = PriorityList[i]
                /\ PriorityList[i] \in NameChars
                /\ \A j \in 1..(i - 1) : PriorityList[j] \notin NameChars
                /\ Len(normalized) = Occurrences(name, PriorityList[i]) + 1
                /\ \A k \in 1..Len(normalized) :
                        ~contains(normalized[k], PriorityList[i])
                /\ join(normalized, <<PriorityList[i]>>) = to_lowercase(name)

\* A hyphen comes first in the name, the underscore wins.
C8_Witness ==
    /\ pc = "convert"
    /\ name = <<"-", "_", "a">>
    /\ case_info.separator = "_"
    /\ normalized = << <<"-">>, <<"a">> >>

\* The characters of the parts: those of the name but the separator.
C9_PartChars == NameChars \ {case_info.separator}

C9_Rule ==
    case_info.part_type =
        IF C9_PartChars \subseteq UpperLetters THEN "UpperCase"
        ELSE IF C9_PartChars \subseteq LowerLetters THEN "LowerCase"
        ELSE "Capitalise"

\* C9 (as stated): UpperCase when every character of every part is upper case,
\* else LowerCase when every one is lower case, else Capitalise; and every name
\* made only of non-alphabetic characters is UpperCase.
C9_NonAlphabeticIsUpper ==
    Detected =>
        /\ C9_Rule
        /\ (NameChars \cap Letters = {}) => case_info.part_type = "UpperCase"

\* C9 (amended): the same rule; the tie-break makes UpperCase of a name whose
\* parts are all empty (a name made only of its separator), and a name with a
\* part character that is neither upper nor lower case (a digit, another
\* punctuation mark) is Capitalise.
C9_StyleAmended ==
    Detected =>
        /\ C9_Rule
        /\ (C9_PartChars = {}) => case_info.part_type = "UpperCase"
        /\ (C9_PartChars \ Letters # {}) => case_info.part_type = "Capitalise"

C9_Witness ==
    /\ pc = "convert"
    /\ name = <<"1", "-", "1">>
    /\ case_info = CaseInfo("-", "Capitalise")

---------------------------------------------------------------------------
(* start's two detections and one call of transform_text.                  *)

MaxProjLen == 3

MaxTextLen == 3

ProjAlphabet == {"a", "_"}

TextAlphabet == {"a", "A", "_"}

ProjectNames == StringsOver(ProjAlphabet, MaxProjLen) \ {<<>>}

Texts == StringsOver(TextAlphabet, MaxTextLen)

DetectorIdle ==
    /\ origin = "name"
    /\ grid_case = CaseInfo(None, "LowerCase")
    /\ grid_parts = Idle
    /\ name = Idle
    /\ case_info = CaseInfo(None, "LowerCase")
    /\ normalized = Idle
    /\ rendered = Idle

InitTransform ==
    /\ pc = "start"
    /\ input_file_name \in ProjectNames
    /\ args_name \in ProjectNames
    /\ input \in Texts
    /\ old_name = Idle
    /\ new_name = Idle
    /\ out = Idle
    /\ cases = Idle
    /\ DetectorIdle
    /\ FsIdle

StartDetect ==
    /\ pc = "start"
    /\ old_name' = detect(input_file_name).name
    /\ new_name' = detect(args_name).name
    /\ pc' = "transform"
    /\ UNCHANGED <<input_file_name, args_name, input, out, cases, cvars, fvars>>

TransformText ==
    /\ pc = "transform"
    /\ cases' = all_cases
    /\ out' = transform_text(input, old_name, new_name)
    /\ pc' = IF out' = Panicked THEN "panic" ELSE "returned"
    /\ UNCHANGED <<input_file_name, args_name, old_name, new_name, input, cvars, fvars>>

NextTransform == StartDetect \/ TransformText

SpecTransform == InitTransform /\ [][NextTransform]_vars

Transformed == cases # Idle

\* C1: for old and new names from detect and each of the 18 CaseInfo c,
\* transform_text of convert(c, old) returns exactly convert(c, new).
C1_SameStyleRewrite ==
    pc = "returned" =>
        \A i \in 1..Len(all_cases) :
            input = convert(all_cases[i], old_name) =>
                out = convert(all_cases[i], new_name)

\* C3: transform_text(s, old, old) returns s unchanged, for any s and any old.
C3_Idempotence ==
    (Transformed /\ new_name = old_name) => out = input

\* C5: for non-empty old and new names and any input, the two detections and
\* transform_text complete and return a string: no convert call panics.
C5_Total ==
    Transformed => (pc = "returned" /\ out # Panicked)

---------------------------------------------------------------------------
(* The directory copy: start, traverse_directory, rename_file.             *)
(*                                                                         *)
(* A path is the sequence of entry names below the root: the input root is *)
(* args.input, the output root is args.input's parent joined with          *)
(* args.name.  A tree maps the paths that exist to a directory or to a     *)
(* file with its content.  The parent of the output root exists.           *)

MaxNodes == 4

EntryNames == {<<"a">>, <<"b">>}

\* A file that is not UTF-8: read_to_string fails on it.
BinaryContent == <<"0xFF">>

FileContents == {<<"a">>, <<"A">>, BinaryContent}

FsNewNames == {<<"b">>, <<"b", "_">>}

Dir == [kind |-> "dir", content |-> Idle]

File(content) == [kind |-> "file", content |-> content]

EmptyTree == [p \in {} |-> Dir]

Parent(path) == SubSeq(path, 1, Len(path) - 1)

exists(fs, path) == path \in DOMAIN fs

is_dir(fs, path) == exists(fs, path) /\ fs[path].kind = "dir"

read_dir(fs, path) ==
    {e \in EntryNames : exists(fs, Append(path, e))}

read_to_string_ok(content) == content # BinaryContent

put(fs, path, node) ==
    [q \in DOMAIN fs \cup {path} |-> IF q = path THEN node ELSE fs[q]]

\* create_dir_all: the path and its missing ancestors become directories; it
\* fails when one of them is a file.
Prefixes(path) == {SubSeq(path, 1, k) : k \in 0..Len(path)}

create_dir_all_fails(fs, path) ==
    \E q \in Prefixes(path) : exists(fs, q) /\ fs[q].kind # "dir"

create_dir_all(fs, path) ==
    [q \in DOMAIN fs \cup Prefixes(path) |-> IF exists(fs, q) THEN fs[q] ELSE Dir]

\* fs::write and fs::copy create or truncate the file at path; they fail when
\* its parent is no directory or the path is a directory.
write_fails(fs, path) ==
    \/ is_dir(fs, path)
    \/ path # <<>> /\ ~is_dir(fs, Parent(path))

\* The text branch without its test of output.exists().
rename_file_always_write(fs, content, output, old, new) ==
    IF read_to_string_ok(content)
    THEN LET new_content == transform_text(content, old, new)
         IN  IF new_content = Panicked
             THEN [fs |-> fs, panicked |-> TRUE,
                   printed |-> <<"Renaming content of file">>]
             ELSE [fs |-> IF write_fails(fs, output) THEN fs
                          ELSE put(fs, output, File(new_content)),
                   panicked |-> write_fails(fs, output),
                   printed |-> <<"Renaming content of file", "Creating file">>]
    ELSE [fs |-> IF write_fails(fs, output) THEN fs
                 ELSE put(fs, output, File(content)),
          panicked |-> write_fails(fs, output),
          printed |-> <<"Failed to read file, doing a simple copy", "Creating file">>]

\* rename_file on an input file of the given content: the output tree it
\* leaves, whether an unwrap panicked, and the lines it printed.
rename_file(fs, content, output, old, new) ==
    IF read_to_string_ok(content)
    THEN LET new_content == transform_text(content, old, new)
         IN  IF new_content = Panicked
             THEN [fs |-> fs, panicked |-> TRUE,
                   printed |-> <<"Renaming content of file">>]
             ELSE IF ~exists(fs, output)
             THEN [fs |-> IF write_fails(fs, output) THEN fs
                          ELSE put(fs, output, File(new_content)),
                   panicked |-> write_fails(fs, output),
                   printed |-> <<"Renaming content of file", "Creating file">>]
             ELSE [fs |-> fs, panicked |-> FALSE,
                   printed |-> <<"Renaming content of file">>]
    ELSE [fs |-> IF write_fails(fs, output) THEN fs
                 ELSE put(fs, output, File(content)),
          panicked |-> write_fails(fs, output),
          printed |-> <<"Failed to read file, doing a simple copy", "Creating file">>]

InitFs ==
    /\ pc = "setup"
    /\ input_file_name = <<"a">>
    /\ fs_in = (<<>> :> Dir)
    /\ fs_out = EmptyTree
    /\ stack = <<>>
    /\ call = Idle
    /\ stdout = <<>>
    /\ args_name = Idle
    /\ old_name = Idle
    /\ new_name = Idle
    /\ input = Idle
    /\ out = Idle
    /\ cases = Idle
    /\ DetectorIdle

FsFrame == <<input_file_name, input, out, cvars>>

\* The project to rename is made, as gen_test_project makes it.
MkDir ==
    /\ pc = "setup"
    /\ Cardinality(DOMAIN fs_in) <= MaxNodes
    /\ \E parent \in DOMAIN fs_in, e \in EntryNames :
          /\ is_dir(fs_in, parent)
          /\ ~exists(fs_in, Append(parent, e))
          /\ fs_in' = put(fs_in, Append(parent, e), Dir)
    /\ UNCHANGED <<pc, args_name, old_name, new_name, cases, fs_out, stack, call,
                   stdout, FsFrame>>

WriteFile ==
    /\ pc = "setup"
    /\ Cardinality(DOMAIN fs_in) <= MaxNodes
    /\ \E parent \in DOMAIN fs_in, e \in EntryNames, content \in FileContents :
          /\ is_dir(fs_in, parent)
          /\ ~exists(fs_in, Append(parent, e))
          /\ fs_in' = put(fs_in, Append(parent, e), File(content))
    /\ UNCHANGED <<pc, args_name, old_name, new_name, cases, fs_out, stack, call,
                   stdout, FsFrame>>

\* start: the two detections and the first call of traverse_directory.
Start ==
    /\ pc = "setup"
    /\ \E n \in FsNewNames : args_name' = n
    /\ old_name' = detect(input_file_name).name
    /\ new_name' = detect(args_name').name
    /\ call' = [input |-> <<>>, output |-> <<>>]
    /\ pc' = "call"
    /\ UNCHANGED <<cases, fs_in, fs_out, stack, stdout, FsFrame>>

\* traverse_directory on a directory: read_dir, and the for loop begins.
EnterDirectory ==
    /\ pc = "call"
    /\ is_dir(fs_in, call.input)
    /\ stack' = Append(stack, [input |-> call.input, output |-> call.output,
                               entries |-> read_dir(fs_in, call.input)])
    /\ stdout' = <<>>
    /\ pc' = "loop"
    /\ UNCHANGED <<args_name, old_name, new_name, cases, fs_in, fs_out, call, FsFrame>>

\* traverse_directory on a file: rename_file, and the return to the caller.
RenameFile ==
    /\ pc = "call"
    /\ ~is_dir(fs_in, call.input)
    /\ LET r == rename_file(fs_out, fs_in[call.input].content, call.output,
                            old_name, new_name)
       IN  /\ fs_out' = r.fs
           /\ stdout' = r.printed
           /\ pc' = IF r.panicked THEN "panic"
                    ELSE IF stack = <<>> THEN "done" ELSE "loop"
    /\ cases' = IF read_to_string_ok(fs_in[call.input].content) THEN all_cases ELSE cases
    /\ UNCHANGED <<args_name, old_name, new_name, fs_in, stack, call, FsFrame>>

\* One turn of the for loop, up to the recursive call: read_dir yields the
\* entries in no particular order.
NextEntry ==
    /\ pc = "loop"
    /\ stack # <<>>
    /\ LET top == stack[Len(stack)]
       IN  \E e \in top.entries :
             LET new_file_name == transform_text(e, old_name, new_name)
                 create        == ~exists(fs_out, top.output)
                 failed        == \/ new_file_name = Panicked
                                  \/ create /\ create_dir_all_fails(fs_out, top.output)
             IN  /\ cases' = all_cases
                 /\ stdout' = IF create /\ new_file_name # Panicked
                              THEN <<"Creating directory">> ELSE <<>>
                 /\ fs_out' = IF create /\ ~failed
                              THEN create_dir_all(fs_out, top.output) ELSE fs_out
                 /\ stack' = [stack EXCEPT ![Len(stack)].entries = top.entries \ {e}]
                 /\ call' = IF failed THEN call
                            ELSE [input  |-> Append(top.input, e),
                                  output |-> Append(top.output, new_file_name)]
                 /\ pc' = IF failed THEN "panic" ELSE "call"
    /\ UNCHANGED <<args_name, old_name, new_name, fs_in, FsFrame>>

\* The for loop is over: traverse_directory returns.
Return ==
    /\ pc = "loop"
    /\ stack # <<>>
    /\ stack[Len(stack)].entries = {}
    /\ stack' = SubSeq(stack, 1, Len(stack) - 1)
    /\ stdout' = <<>>
    /\ pc' = IF stack' = <<>> THEN "done" ELSE "loop"
    /\ UNCHANGED <<args_name, old_name, new_name, cases, fs_in, fs_out, call, FsFrame>>

NextFs ==
    \/ MkDir
    \/ WriteFile
    \/ Start
    \/ EnterDirectory
    \/ RenameFile
    \/ NextEntry
    \/ Return

SpecFs == InitFs /\ [][NextFs]_vars


---------------------------------------------------------------------------
(* Claims about the directory copy, under SpecFs.                          *)

\* The output path of an input path: transform_text on each entry name.
MapPath(path) == [i \in 1..Len(path) |-> transform_text(path[i], old_name, new_name)]

\* C6: after start completes, every directory and file of the input tree has a
\* counterpart in the output tree at the path with each entry name transformed,
\* and each readable text file's counterpart holds transform_text of its content.
C6_TreeCopied ==
    pc = "done" =>
        \A p \in DOMAIN fs_in :
            /\ exists(fs_out, MapPath(p))
            /\ fs_out[MapPath(p)].kind = fs_in[p].kind
            /\ (fs_in[p].kind = "file" /\ read_to_string_ok(fs_in[p].content)) =>
                  fs_out[MapPath(p)].content =
                      transform_text(fs_in[p].content, old_name, new_name)

RenameFileCalled == pc = "call" /\ ~is_dir(fs_in, call.input)

\* C10 (as stated): rename_file never changes a file that already exists at
\* the output path, whether the input file is readable as text or not.
C10_ExistingOutputKept ==
    [][(RenameFileCalled /\ exists(fs_out, call.output)) =>
          (exists(fs_out', call.output) /\ fs_out'[call.output] = fs_out[call.output])]_vars

\* C10 (amended): rename_file never changes what exists at the output path
\* when the input file is readable as text; an input file that is not readable
\* as text is copied over the file that exists at the output path.
C10_ExistingOutputKeptForText ==
    [][(RenameFileCalled /\ exists(fs_out, call.output)) =>
          /\ exists(fs_out', call.output)
          /\ read_to_string_ok(fs_in[call.input].content) =>
                fs_out'[call.output] = fs_out[call.output]
          /\ (~read_to_string_ok(fs_in[call.input].content)
                    /\ fs_out[call.output].kind = "file") =>
                fs_out'[call.output] = fs_in[call.input]]_vars

\* rename_file has returned from its text branch without the write, and the
\* file at the output path is not the transformed input.
C10_Witness ==
    /\ pc = "loop"
    /\ stdout = <<"Renaming content of file">>
    /\ fs_out[call.output].kind = "file"
    /\ fs_out[call.output].content #
          transform_text(fs_in[call.input].content, old_name, new_name)

ExpectedStyles == <<"Capitalise", "UpperCase", "LowerCase">>

ExpectedSeparators == <<None, " ", "_", "-", ".", "/">>

\* C7: all_cases returns 18 pairwise distinct CaseInfo values, the style in the
\* outer loop (Capitalise, UpperCase, LowerCase) and within each style no
\* separator first, then space, underscore, hyphen, dot, slash.
C7_AllCasesOrder ==
    Transformed =>
        /\ Len(cases) = 18
        /\ \A i \in 1..18 :
              cases[i] = [separator |-> ExpectedSeparators[((i - 1) % 6) + 1],
                          part_type |-> ExpectedStyles[((i - 1) \div 6) + 1]]
        /\ \A i, j \in 1..Len(cases) : cases[i] = cases[j] => i = j

C7_Witness ==
    /\ pc = "done"
    /\ Len(cases) = 18
    /\ cases[1] = CaseInfo(None, "Capitalise")
    /\ cases[8] = CaseInfo(" ", "UpperCase")
    /\ cases[18] = CaseInfo("/", "LowerCase")

=============================================================================
